---- MODULE Spec2Model ----
(***************************************************************************)
(* Model of the batch queue processor of src/putiai/index.tsx (component   *)
(* App): the React state hasKey / queue / isProcessing, the user intents   *)
(* (handleFiles, removeItem, clear-all, processQueue, cancelProcessing),   *)
(* the credential poll, and every invocation of the async function         *)
(* processQueue as a process that is suspended at its three awaits         *)
(* (line 135: re-read of the queue, line 148: image decode, line 154: the  *)
(* API call).  Code between two awaits runs atomically on the event loop   *)
(* and is one action.                                                      *)
(*                                                                         *)
(* An event handler reads the state of the latest render through its       *)
(* closure; renders are taken to follow every state update at once, so a   *)
(* handler reads the current state.  The snapshot pendingItems and the     *)
(* loop of an invocation belong to that invocation alone (the runs record).*)
(*                                                                         *)
(* Three specifications share the state.  Spec is the processor with every  *)
(* intent except the two prompt editors, whose only effect is on           *)
(* customPrompt and globalPrompt, which no guard reads; SpecPrompt adds    *)
(* them (a bounded number of edits).  SpecMatcher applies the aspect-ratio *)
(* computation of img.onload (lines 57-76) to bounded image dimensions; in *)
(* the other two the decode of a file is the pair DecodeOk / DecodeFail.   *)
(*                                                                         *)
(* Item ids (Math.random, line 90) are modelled as fresh numbers.  Strings *)
(* shown to the user are modelled by tokens:                               *)
(*   "GenerationFailed" = line 196, "SafetyLimit" = line 206,              *)
(*   "TooFrequent" = line 207, "img" = the data URL of line 182.           *)
(***************************************************************************)
EXTENDS Integers, Sequences, FiniteSets, TLC

\* ---- bounds ----
\* total number of files ever enqueued
MaxItems == 2
\* number of processQueue invocations that may be suspended at the same time
MaxRuns == 2

\* number of prompt edits (updateItemPrompt, setGlobalPrompt) in SpecPrompt
MaxEdits == 1
\* image widths and heights 0..MaxDim in SpecMatcher
MaxDim == 10
\* number of fragments of a failure message in SpecClassify
MaxMsgLen == 3

VARIABLES hasKey, queue, isProcessing, runs, nextId, lastOp,
          globalPrompt, edits, probe

vars == <<hasKey, queue, isProcessing, runs, nextId, lastOp, globalPrompt, edits, probe>>

RunIds == 1..MaxRuns

\* ---- error values reaching the catch block (line 194) ----
AuthSignal == "Requested entity was not found"
SafetySignal == "Safety"
RateSignal == "429"
\* a caught value: whether it has a message property, and which of the three
\* signals the message contains
Err(has, sigs) == [hasMessage |-> has, signals |-> sigs]
\* an error without a message property (the Event of img.onerror, line 78)
NoMessage == Err(FALSE, {})
\* what generateContent may reject with
Rejections ==
  {Err(TRUE, {AuthSignal}), Err(TRUE, {SafetySignal}), Err(TRUE, {RateSignal}), NoMessage}
\* new Error("No image generated."), line 191: contains none of the signals
NoImageError == Err(TRUE, {})

\* err.message?.includes(s), lines 198, 206, 207
Includes(err, s) == err.hasMessage /\ s \in err.signals

\* lines 206 and 207 in the other order: the safety label overrides
ErrorMsgForMut(err) ==
  IF Includes(err, SafetySignal) THEN "SafetyLimit"
  ELSE IF Includes(err, RateSignal) THEN "TooFrequent"
  ELSE "GenerationFailed"

\* lines 196, 206, 207: later assignments override earlier ones
ErrorMsgFor(err) ==
  IF Includes(err, RateSignal) THEN "TooFrequent"
  ELSE IF Includes(err, SafetySignal) THEN "SafetyLimit"
  ELSE "GenerationFailed"

\* ---- queue items (interface QueueItem, lines 7-15) ----
\* an absent optional property
Undefined == "<undefined>"

NewItem(n) == [id |-> n, status |-> "idle", resultUrl |-> "none", errorMsg |-> "none",
               customPrompt |-> Undefined]

Ids(q) == {q[k].id : k \in 1..Len(q)}

\* the presence re-check left out
IsPresentMut(q, id) == TRUE

\* currentQueue.find(i => i.id === item.id), line 138
IsPresent(q, id) == id \in Ids(q)

\* the filter of line 130 (and of the button at line 294)
Eligible(it) == it.status = "idle" \/ it.status = "error"

RECURSIVE IdsOf(_)
IdsOf(q) == IF q = <<>> THEN <<>> ELSE <<Head(q).id>> \o IdsOf(Tail(q))

\* the snapshot taken without the status filter
PendingItemsMut(q) == IdsOf(q)

\* pendingItems, line 130, kept as the ids of the snapshot's items
PendingItems(q) == IdsOf(SelectSeq(q, Eligible))

RECURSIVE PromptsOf(_)
PromptsOf(q) == IF q = <<>> THEN <<>> ELSE <<Head(q).customPrompt>> \o PromptsOf(Tail(q))

\* the customPrompt of the snapshot's items: pendingItems holds the item
\* objects of the queue of the render in which processQueue was called
PendingPrompts(q) == PromptsOf(SelectSeq(q, Eligible))

\* ---- prompts ----
\* useState initial value of line 22 (abbreviated)
InitialGlobalPrompt == "Replace the text: "
\* texts the user may type
GlobalTexts == {InitialGlobalPrompt, "Translate: "}
CustomTexts == {"", "X"}

\* item.customPrompt || "", line 151
SpecificInstruction(custom) == IF custom = Undefined \/ custom = "" THEN "" ELSE custom

\* `${globalPrompt} ${specificInstruction}`, line 152
FinalPrompt(global, custom) == global \o " " \o SpecificInstruction(custom)

\* no request text: the invocation is not awaiting generateContent
NoText == "<none>"

\* the three setQueue(prev => prev.map(...)) updaters
SetProcessing(q, id) ==
  [k \in 1..Len(q) |-> IF q[k].id = id
      THEN [q[k] EXCEPT !.status = "processing", !.errorMsg = "none"] ELSE q[k]]

\* a result recorded by inserting the item when it is no longer in the queue
SetSuccessMut(q, id) ==
  IF id \in Ids(q)
  THEN [k \in 1..Len(q) |-> IF q[k].id = id
          THEN [q[k] EXCEPT !.status = "success", !.resultUrl = "img"] ELSE q[k]]
  ELSE Append(q, [NewItem(id) EXCEPT !.status = "success", !.resultUrl = "img"])

SetSuccess(q, id) ==
  [k \in 1..Len(q) |-> IF q[k].id = id
      THEN [q[k] EXCEPT !.status = "success", !.resultUrl = "img"] ELSE q[k]]

SetError(q, id, msg) ==
  [k \in 1..Len(q) |-> IF q[k].id = id
      THEN [q[k] EXCEPT !.status = "error", !.errorMsg = msg] ELSE q[k]]

\* prev.map(...) of line 122
SetCustomPrompt(q, id, text) ==
  [k \in 1..Len(q) |-> IF q[k].id = id THEN [q[k] EXCEPT !.customPrompt = text] ELSE q[k]]

\* prev.filter(item => item.id !== id), line 118
RemoveId(q, id) == SelectSeq(q, LAMBDA it : it.id # id)

\* ---- invocations of processQueue ----
\* pc: where the invocation is suspended; pending, idx: the snapshot of line
\* 130 and the position of the for loop in it.  stopped is a history field
\* (not program state): cancelProcessing was called while this invocation had
\* an item in flight.  custom: the customPrompt of the snapshot's items;
\* globalPrompt: the globalPrompt of the closure of the invocation; text: the
\* instruction text of the request awaited at line 154.
FreeRun == [pc |-> "free", pending |-> <<>>, idx |-> 0, stopped |-> FALSE,
            custom |-> <<>>, globalPrompt |-> "", text |-> NoText]

\* the loop variable `item` of line 133
CurItem(r) == runs[r].pending[runs[r].idx]

\* item.customPrompt of line 151: the loop variable is the snapshot's object
CurCustomPrompt(r) == runs[r].custom[runs[r].idx]

\* globalPrompt read from the state at the time of the request
RunGlobalPromptMut(r) == globalPrompt

\* globalPrompt of line 152: the constant of the closure of the invocation
RunGlobalPrompt(r) == runs[r].globalPrompt

\* no image is being probed
NoProbe == [w |-> 0, h |-> 0, result |-> "none"]

\* run r has set its item to processing and awaits the decode or the response
InFlight(r) == runs[r].pc \in {"decode", "api"}

\* lastOp is a history variable: the last operation and the item it was about
Op(name, id) == [op |-> name, id |-> id]

Init ==
  /\ hasKey = FALSE
  /\ queue = <<>>
  /\ isProcessing = FALSE
  /\ runs = [r \in RunIds |-> FreeRun]
  /\ nextId = 1
  /\ lastOp = Op("init", 0)
  /\ globalPrompt = InitialGlobalPrompt
  /\ edits = 0
  /\ probe = NoProbe

\* The main screen (lines 251-522) is rendered only when hasKey; the
\* connect-key screen (lines 221-249) offers none of the intents.
MainScreen == hasKey

\* checkKey, lines 28-33, run at mount and every 2 s (line 36)
CheckKey ==
  /\ \E selected \in BOOLEAN :
       /\ hasKey' = selected
       /\ lastOp' = Op(IF selected THEN "keyTrue" ELSE "keyFalse", 0)
  /\ UNCHANGED <<queue, isProcessing, runs, nextId, globalPrompt, edits, probe>>

\* handleFiles, lines 87-96, with a FileList of n files
HandleFiles ==
  /\ MainScreen
  /\ \E n \in 1..(MaxItems - nextId + 1) :
       /\ queue' = queue \o [k \in 1..n |-> NewItem(nextId + k - 1)]
       /\ nextId' = nextId + n
       /\ lastOp' = Op("enqueue", nextId)
  /\ UNCHANGED <<hasKey, isProcessing, runs, globalPrompt, edits, probe>>

\* removeItem, lines 117-119 (button at lines 404-409)
RemoveItem ==
  /\ MainScreen
  /\ \E id \in Ids(queue) :
       /\ queue' = RemoveId(queue, id)
       /\ lastOp' = Op("remove", id)
  /\ UNCHANGED <<hasKey, isProcessing, runs, nextId, globalPrompt, edits, probe>>

\* clear-all button, line 265
ClearAll ==
  /\ MainScreen
  /\ ~isProcessing
  /\ queue # <<>>
  /\ queue' = <<>>
  /\ lastOp' = Op("clearAll", 0)
  /\ UNCHANGED <<hasKey, isProcessing, runs, nextId, globalPrompt, edits, probe>>

\* cancelProcessing, lines 216-219 (button shown only while isProcessing, line 303)
CancelProcessing ==
  /\ MainScreen
  /\ isProcessing
  /\ isProcessing' = FALSE
  /\ runs' = [r \in RunIds |->
       IF InFlight(r) THEN [runs[r] EXCEPT !.stopped = TRUE] ELSE runs[r]]
  /\ lastOp' = Op("cancel", 0)
  /\ UNCHANGED <<hasKey, queue, nextId, globalPrompt, edits, probe>>

\* the loop variable not advanced: the same item is taken again and again
LoopNextStuck(r) ==
  /\ runs' = [runs EXCEPT ![r].pc = "check", ![r].text = NoText]
  /\ UNCHANGED isProcessing

\* the loop left after the first finished item (break instead of continue)
LoopNextMut(r) ==
  /\ runs' = [runs EXCEPT ![r] = FreeRun]
  /\ isProcessing' = FALSE

\* End of one loop iteration of run r with the queue already updated to q:
\* the next iteration runs up to its await (line 135), or the loop is over
\* and line 213 runs.
LoopNext(r) ==
  IF runs[r].idx < Len(runs[r].pending)
  THEN /\ runs' = [runs EXCEPT ![r].idx = @ + 1, ![r].pc = "check", ![r].text = NoText]
       /\ UNCHANGED isProcessing
  ELSE /\ runs' = [runs EXCEPT ![r] = FreeRun]
       /\ isProcessing' = FALSE

\* the guard of line 127 left out
AlreadyActiveMut == FALSE

\* the guard of line 127
AlreadyActive == isProcessing

\* processQueue, lines 126-137: from the call up to the first await.  The
\* disabled attribute of the start button (line 294) is not a guard here: the
\* calls it prevents are the two that change nothing (isProcessing set, or no
\* idle or error item in the queue).
StartRun ==
  /\ MainScreen
  /\ IF AlreadyActive
     THEN \* line 127
          /\ lastOp' = Op("startNoop", 0)
          /\ UNCHANGED <<hasKey, queue, isProcessing, runs, nextId, globalPrompt, edits, probe>>
     ELSE LET pending == PendingItems(queue) IN
          IF pending = <<>>
          THEN \* lines 128 and 213 in one synchronous pass
               /\ isProcessing' = FALSE
               /\ lastOp' = Op("startEmpty", 0)
               /\ UNCHANGED <<hasKey, queue, runs, nextId, globalPrompt, edits, probe>>
          ELSE \E r \in RunIds :
               /\ runs[r].pc = "free"
               /\ \A s \in RunIds : s < r => runs[s].pc # "free"
               /\ runs' = [runs EXCEPT ![r] =
                    [pc |-> "check", pending |-> pending, idx |-> 1, stopped |-> FALSE,
                     custom |-> PendingPrompts(queue), globalPrompt |-> globalPrompt,
                     text |-> NoText]]
               /\ isProcessing' = TRUE
               /\ lastOp' = Op("start", 0)
               /\ UNCHANGED <<hasKey, queue, nextId, globalPrompt, edits, probe>>

\* lines 135-141: the awaited re-read resolves; presence check; set processing;
\* then up to the await of line 148
CheckPresent(r) ==
  /\ runs[r].pc = "check"
  /\ IF ~IsPresent(queue, CurItem(r))
     THEN \* line 138: continue
          /\ LoopNext(r)
          /\ lastOp' = Op("skip", CurItem(r))
          /\ UNCHANGED <<hasKey, queue, nextId, globalPrompt, edits, probe>>
     ELSE /\ queue' = SetProcessing(queue, CurItem(r))
          /\ runs' = [runs EXCEPT ![r].pc = "decode"]
          /\ lastOp' = Op("processing", CurItem(r))
          /\ UNCHANGED <<hasKey, isProcessing, nextId, globalPrompt, edits, probe>>

\* catch block, lines 194-210
Catch(r, err) ==
  IF Includes(err, AuthSignal)
  THEN \* lines 198-204
       /\ hasKey' = FALSE
       /\ isProcessing' = FALSE
       /\ runs' = [runs EXCEPT ![r] = FreeRun]
       /\ lastOp' = Op("authRejected", CurItem(r))
       /\ UNCHANGED <<queue, nextId, globalPrompt, edits, probe>>
  ELSE \* lines 206-209, then the loop goes on
       /\ queue' = SetError(queue, CurItem(r), ErrorMsgFor(err))
       /\ LoopNext(r)
       /\ lastOp' = Op("error", CurItem(r))
       /\ UNCHANGED <<hasKey, nextId, globalPrompt, edits, probe>>

\* prepareImageForGenAI resolves (line 76); lines 150-154 run up to the API await
DecodeOk(r) ==
  /\ runs[r].pc = "decode"
  /\ runs' = [runs EXCEPT ![r].pc = "api",
                          ![r].text = FinalPrompt(RunGlobalPrompt(r), CurCustomPrompt(r))]
  /\ lastOp' = Op("submit", CurItem(r))
  /\ UNCHANGED <<hasKey, queue, isProcessing, nextId, globalPrompt, edits, probe>>

\* prepareImageForGenAI rejects (lines 78, 81) with an Event, which has no message
DecodeFail(r) ==
  /\ runs[r].pc = "decode"
  /\ Catch(r, NoMessage)

\* generateContent resolves with an extractable image, lines 178-189
ApiImage(r) ==
  /\ runs[r].pc = "api"
  /\ queue' = SetSuccess(queue, CurItem(r))
  /\ LoopNext(r)
  /\ lastOp' = Op("success", CurItem(r))
  /\ UNCHANGED <<hasKey, nextId, globalPrompt, edits, probe>>

\* generateContent resolves without an image, lines 190-192
ApiNoImage(r) ==
  /\ runs[r].pc = "api"
  /\ Catch(r, NoImageError)

\* generateContent rejects
ApiReject(r) ==
  /\ runs[r].pc = "api"
  /\ \E err \in Rejections : Catch(r, err)

\* updateItemPrompt, lines 121-123; the textarea (lines 435-442) shows
\* item.customPrompt || '' and is disabled for a processing or success item
UpdateItemPrompt ==
  /\ MainScreen
  /\ edits < MaxEdits
  /\ \E k \in 1..Len(queue), text \in CustomTexts :
       /\ queue[k].status \in {"idle", "error"}
       /\ text # SpecificInstruction(queue[k].customPrompt)
       /\ queue' = SetCustomPrompt(queue, queue[k].id, text)
       /\ lastOp' = Op("editCustom", queue[k].id)
  /\ edits' = edits + 1
  /\ UNCHANGED <<hasKey, isProcessing, runs, nextId, globalPrompt, probe>>

\* onChange of the global prompt textarea, lines 281-285
SetGlobalPrompt ==
  /\ MainScreen
  /\ edits < MaxEdits
  /\ \E text \in GlobalTexts :
       /\ text # globalPrompt
       /\ globalPrompt' = text
  /\ edits' = edits + 1
  /\ lastOp' = Op("editGlobal", 0)
  /\ UNCHANGED <<hasKey, queue, isProcessing, runs, nextId, probe>>

\* ---- aspect ratio of img.onload, lines 57-76 ----
\* The numbers are exact rationals: val is kept in ten-thousandths, and the
\* distance |val - width/height| in units of 1/(10000 * height).  Two
\* distances that differ do so by at least one unit, far above the rounding
\* of the doubles, and for heights below 10000 two distances are equal only
\* between the values 1.0, 0.75 and 0.5625, where the doubles are exact too.
\* the array of lines 63-69
Supported ==
  << [id |-> "1:1", val |-> 10000],
     [id |-> "3:4", val |-> 7500],
     [id |-> "4:3", val |-> 13333],
     [id |-> "9:16", val |-> 5625],
     [id |-> "16:9", val |-> 17778] >>

Abs(n) == IF n < 0 THEN 0 - n ELSE n

\* Math.abs(x.val - ratio) with ratio = width / height (line 60): a finite
\* number, Infinity for a division of a positive width by 0, NaN for 0 / 0
AbsDiff(val, w, h) ==
  IF h # 0 THEN [kind |-> "finite", num |-> Abs(val * h - 10000 * w)]
  ELSE IF w # 0 THEN [kind |-> "infinity", num |-> 0]
  ELSE [kind |-> "nan", num |-> 0]

\* a tie goes to the later entry
CloserMut(a, b) == a.kind = "finite" /\ b.kind = "finite" /\ a.num <= b.num

\* the < of line 73: false between two Infinity and with NaN
Closer(a, b) == a.kind = "finite" /\ b.kind = "finite" /\ a.num < b.num

\* supported.reduce(...) without initial value, lines 72-74
RECURSIVE ReduceFrom(_, _, _, _)
ReduceFrom(prev, k, w, h) ==
  IF k > Len(Supported) THEN prev
  ELSE ReduceFrom(IF Closer(AbsDiff(Supported[k].val, w, h), AbsDiff(prev.val, w, h))
                  THEN Supported[k] ELSE prev, k + 1, w, h)

\* bestMatch.id, line 76
BestMatch(w, h) == ReduceFrom(Supported[1], 2, w, h).id

\* dimensions named in the specification's examples
ExampleDims == {600, 800, 1000, 1080, 1920}
Dims == (0..MaxDim) \cup ExampleDims

\* img.onload, lines 57-77, for an image of probe.w x probe.h
ImgOnLoad ==
  /\ probe.result = "loading"
  /\ probe' = [probe EXCEPT !.result = BestMatch(probe.w, probe.h)]
  /\ UNCHANGED <<hasKey, queue, isProcessing, runs, nextId, lastOp, globalPrompt, edits>>

Next ==
  \/ CheckKey
  \/ HandleFiles
  \/ RemoveItem
  \/ ClearAll
  \/ CancelProcessing
  \/ StartRun
  \/ \E r \in RunIds : CheckPresent(r)
  \/ \E r \in RunIds : DecodeOk(r)
  \/ \E r \in RunIds : DecodeFail(r)
  \/ \E r \in RunIds : ApiImage(r)
  \/ \E r \in RunIds : ApiNoImage(r)
  \/ \E r \in RunIds : ApiReject(r)

Spec == Init /\ [][Next]_vars

\* the processor with the two prompt editors
NextPrompt ==
  \/ Next
  \/ UpdateItemPrompt
  \/ SetGlobalPrompt

SpecPrompt == Init /\ [][NextPrompt]_vars

\* one step of invocation r: an awaited promise settles
RunStep(r) ==
  \/ CheckPresent(r)
  \/ DecodeOk(r)
  \/ DecodeFail(r)
  \/ ApiImage(r)
  \/ ApiNoImage(r)
  \/ ApiReject(r)

\* every awaited decode, response and queue re-read eventually settles
SpecFair == Spec /\ \A r \in RunIds : WF_vars(RunStep(r))

\* an image of any of the bounded dimensions has been decoded
InitMatcher ==
  /\ hasKey = FALSE
  /\ queue = <<>>
  /\ isProcessing = FALSE
  /\ runs = [r \in RunIds |-> FreeRun]
  /\ nextId = 1
  /\ lastOp = Op("init", 0)
  /\ globalPrompt = InitialGlobalPrompt
  /\ edits = 0
  /\ probe \in [w : Dims, h : Dims, result : {"loading"}]

NextMatcher == ImgOnLoad

SpecMatcher == InitMatcher /\ [][NextMatcher]_vars

\* ---- the catch block applied to bounded failure messages ----
\* A message is a sequence of fragments; a fragment is one of the three
\* signals or a text containing none of them.
MsgFragments == {AuthSignal, SafetySignal, RateSignal, "Internal error"}
Messages == UNION {[1..n -> MsgFragments] : n \in 0..MaxMsgLen}
\* a thrown value: with a message, or without the property (err.message?.)
Thrown == [hasMessage : {TRUE}, message : Messages]
            \cup {[hasMessage |-> FALSE, message |-> <<>>]}
\* what the includes() calls of lines 198, 206, 207 find in the thrown value
ErrOf(t) ==
  Err(t.hasMessage,
      {s \in {AuthSignal, SafetySignal, RateSignal} :
         t.hasMessage /\ \E i \in 1..Len(t.message) : t.message[i] = s})

\* one image is queued, processQueue has set it to processing and awaits
\* generateContent (line 154), which is about to reject with probe
InitClassify ==
  /\ hasKey = TRUE
  /\ queue = <<[NewItem(1) EXCEPT !.status = "processing"]>>
  /\ isProcessing = TRUE
  /\ runs = [r \in RunIds |->
               IF r = 1
               THEN [FreeRun EXCEPT !.pc = "api", !.pending = <<1>>, !.idx = 1,
                                    !.custom = <<Undefined>>,
                                    !.globalPrompt = InitialGlobalPrompt,
                                    !.text = FinalPrompt(InitialGlobalPrompt, Undefined)]
               ELSE FreeRun]
  /\ nextId = 2
  /\ lastOp = Op("submit", 1)
  /\ globalPrompt = InitialGlobalPrompt
  /\ edits = 0
  /\ probe \in Thrown

\* the rejection is caught, lines 194-210
CatchThrown(r) ==
  /\ runs[r].pc = "api"
  /\ Catch(r, ErrOf(probe))

NextClassify == \E r \in RunIds : CatchThrown(r)

SpecClassify == InitClassify /\ [][NextClassify]_vars

TypeOK ==
  /\ hasKey \in BOOLEAN
  /\ isProcessing \in BOOLEAN
  /\ nextId \in 1..(MaxItems + 1)
  /\ \A k \in 1..Len(queue) :
       /\ queue[k].id \in 1..MaxItems
       /\ queue[k].status \in {"idle", "processing", "success", "error"}
       /\ queue[k].resultUrl \in {"none", "img"}
       /\ queue[k].errorMsg \in {"none", "GenerationFailed", "SafetyLimit", "TooFrequent"}
  /\ \A r \in RunIds : runs[r].pc \in {"free", "check", "decode", "api"}
  /\ \A r \in RunIds : Len(runs[r].custom) = Len(runs[r].pending)
  /\ \A r \in RunIds : (runs[r].text # NoText) <=> (runs[r].pc = "api")
  /\ globalPrompt \in GlobalTexts
  /\ edits \in 0..MaxEdits

\* ---- properties ----
ProcessingItems == {k \in 1..Len(queue) : queue[k].status = "processing"}
RequestsInFlight == {r \in RunIds : runs[r].pc = "api"}
ActiveRuns == {r \in RunIds : runs[r].pc # "free"}
\* the queue entry with the given id (ids are unique)
ItemOf(q, id) == q[CHOOSE k \in 1..Len(q) : q[k].id = id]
PosOf(q, id) == CHOOSE k \in 1..Len(q) : q[k].id = id
InQueue(q, id) == \E k \in 1..Len(q) : q[k].id = id
StartOps == {"start", "startNoop", "startEmpty"}

\* C1: in every reachable state at most one queue item has status processing.
C1_AtMostOneProcessing == Cardinality(ProcessingItems) <= 1

\* C2: in every reachable state at most one generateContent request is
\* outstanding, whatever sequence of start, cancel and start again was issued.
C2_SingleFlight == Cardinality(RequestsInFlight) <= 1

\* C3: when the request or decode of a run's current item fails with the
\* AuthRejected signal, the credential flag becomes false, the current item
\* (if still in the queue) ends with status error, and the later items of the
\* work list are left as they were.
C3_AuthRejectedOutcome ==
  [][\A r \in RunIds :
       (InFlight(r) /\ runs'[r].pc = "free" /\ lastOp'.op = "authRejected") =>
          /\ hasKey' = FALSE
          /\ InQueue(queue', CurItem(r)) => ItemOf(queue', CurItem(r)).status = "error"
          /\ \A j \in (runs[r].idx + 1)..Len(runs[r].pending) :
               InQueue(queue, runs[r].pending[j]) =>
                 /\ InQueue(queue', runs[r].pending[j])
                 /\ ItemOf(queue', runs[r].pending[j]) = ItemOf(queue, runs[r].pending[j])]_vars

\* C4: a run that had an item in flight when cancelProcessing was called
\* starts no further item: it never again sets an item to processing.
C4_CancelStopsLoop ==
  [][\A r \in RunIds :
       (runs[r].stopped /\ runs[r].pc = "check") => runs'[r].pc # "decode"]_vars

\* C5: a call of processQueue while isProcessing is set changes nothing: no
\* snapshot is taken, no invocation is added, no item and no flag changes.
C5_StartIdempotent ==
  [][(isProcessing /\ lastOp'.op \in StartOps) =>
        UNCHANGED <<hasKey, queue, isProcessing, runs, nextId>>]_vars

\* a processQueue call was just ignored while a run was suspended in its loop
C5_Witness ==
  /\ lastOp.op = "startNoop"
  /\ isProcessing
  /\ \E r \in RunIds : InFlight(r) /\ \E k \in 1..Len(queue) : Eligible(queue[k])

\* C6: an item with status success keeps that status for as long as it is in
\* the queue.
C6_SuccessTerminal ==
  [][\A k \in 1..Len(queue) :
       (queue[k].status = "success" /\ InQueue(queue', queue[k].id)) =>
          ItemOf(queue', queue[k].id).status = "success"]_vars

\* C7: the work list of a run is exactly the idle and error items of the
\* queue, in queue order, at the accepted processQueue call; it never changes
\* while the run lives; and a step changes an item only if it is the step of a
\* run whose current work-list item it is.  Hence an item enqueued after the
\* start is not touched by that run.
C7_SnapshotAtStart ==
  [][/\ \A r \in RunIds :
          (runs[r].pc = "free" /\ runs'[r].pc # "free") =>
             LET p == runs'[r].pending IN
             /\ {p[i] : i \in 1..Len(p)} =
                  {queue[k].id : k \in {j \in 1..Len(queue) : queue[j].status \in {"idle", "error"}}}
             /\ \A i, j \in 1..Len(p) : i < j => PosOf(queue, p[i]) < PosOf(queue, p[j])
     /\ \A r \in RunIds :
          (runs[r].pc # "free" /\ runs'[r].pc # "free") => runs'[r].pending = runs[r].pending
     /\ \A k \in 1..Len(queue) :
          (InQueue(queue', queue[k].id)
             /\ [ItemOf(queue', queue[k].id) EXCEPT !.customPrompt = queue[k].customPrompt]
                  # queue[k]) =>
             \E r \in RunIds :
                /\ runs[r].pc # "free"
                /\ runs'[r] # runs[r]
                /\ runs[r].pending[runs[r].idx] = queue[k].id]_vars

\* the last run has just ended and an item enqueued during it is still idle
C7_Witness ==
  /\ ActiveRuns = {}
  /\ lastOp.op \in {"success", "error"}
  /\ \E k \in 1..Len(queue) : queue[k].status = "idle" /\ queue[k].id > lastOp.id

\* C8: a run whose current work-list item is no longer in the queue skips it:
\* the queue and the flags stay as they are, the item is not back in the queue,
\* and the run moves to its next item (or ends); a run sets an item to
\* processing only if the item is in the queue.
C8_RemovedItemSkipped ==
  [][\A r \in RunIds :
       (runs[r].pc = "check" /\ runs'[r] # runs[r]) =>
          LET id == runs[r].pending[runs[r].idx] IN
          IF InQueue(queue, id)
          THEN runs'[r].pc = "decode"
          ELSE /\ lastOp'.op = "skip"
               /\ queue' = queue
               /\ hasKey' = hasKey
               /\ runs'[r].pc # "decode"
               /\ runs[r].idx < Len(runs[r].pending) =>
                    runs'[r] = [runs[r] EXCEPT !.idx = @ + 1]
               /\ runs[r].idx = Len(runs[r].pending) => runs'[r] = FreeRun]_vars

\* a run has skipped a removed item and stands before the next item of its
\* work list, which is still in the queue
C8_Witness ==
  /\ lastOp.op = "skip"
  /\ ~InQueue(queue, lastOp.id)
  /\ \E r \in RunIds :
       /\ runs[r].pc = "check"
       /\ runs[r].idx > 1
       /\ runs[r].pending[runs[r].idx - 1] = lastOp.id
       /\ InQueue(queue, runs[r].pending[runs[r].idx])

\* C9: an item has a result image if and only if its status is success.
C9_ResultIffSuccess ==
  \A k \in 1..Len(queue) : (queue[k].resultUrl # "none") <=> (queue[k].status = "success")

\* C10: an item has an error message if and only if its status is error.
C10_ErrorMsgIffError ==
  \A k \in 1..Len(queue) : (queue[k].errorMsg # "none") <=> (queue[k].status = "error")

\* C11: an item with status error changes only by being set to processing
\* with its error message cleared; no step takes it from error directly to
\* success or to another error.
C11_ErrorResubmittedThroughProcessing ==
  [][\A k \in 1..Len(queue) :
       (queue[k].status = "error" /\ InQueue(queue', queue[k].id)) =>
          \/ /\ ItemOf(queue', queue[k].id).status = "error"
             /\ ItemOf(queue', queue[k].id).errorMsg = queue[k].errorMsg
          \/ /\ ItemOf(queue', queue[k].id).status = "processing"
             /\ ItemOf(queue', queue[k].id).errorMsg = "none"]_vars

\* C12: when an item of a run fails without the AuthRejected signal, the item
\* (if still in the queue) has status error and an error message, hasKey is
\* unchanged, and the run goes on: with a next work-list item it stands before
\* that item and isProcessing is unchanged, without one the run is over.
C12_ItemFailureRecovered ==
  [][\A r \in RunIds :
       (InFlight(r) /\ runs'[r] # runs[r] /\ lastOp'.op = "error") =>
          LET id == runs[r].pending[runs[r].idx] IN
          /\ hasKey' = hasKey
          /\ InQueue(queue, id) =>
               /\ InQueue(queue', id)
               /\ ItemOf(queue', id).status = "error"
               /\ ItemOf(queue', id).errorMsg # "none"
          /\ runs[r].idx < Len(runs[r].pending) =>
               /\ runs'[r] = [runs[r] EXCEPT !.idx = @ + 1, !.pc = "check", !.text = NoText]
               /\ isProcessing' = isProcessing
          /\ runs[r].idx = Len(runs[r].pending) => runs'[r] = FreeRun]_vars

\* an item has just failed with an error message and its run, still marked
\* active, stands before the next item of its work list
C12_Witness ==
  /\ lastOp.op = "error"
  /\ hasKey
  /\ isProcessing
  /\ InQueue(queue, lastOp.id)
  /\ ItemOf(queue, lastOp.id).status = "error"
  /\ \E r \in RunIds :
       /\ runs[r].pc = "check"
       /\ runs[r].idx > 1
       /\ runs[r].pending[runs[r].idx - 1] = lastOp.id

\* C13: while a run awaits the decode or the response of its N-th work-list
\* item, no later item of that work list is set to processing.
C13_NextItemAfterCompletion ==
  [][\A r \in RunIds :
       (InFlight(r) /\ runs'[r] = runs[r]) =>
          \A j \in (runs[r].idx + 1)..Len(runs[r].pending) :
             LET id == runs[r].pending[j] IN
             (InQueue(queue, id) /\ InQueue(queue', id)
                /\ ItemOf(queue, id).status # "processing") =>
                ItemOf(queue', id).status # "processing"]_vars

\* C16: in the state reached by an AuthRejected abort, with hasKey forced to
\* false, the next step sets no item to processing and submits no request.
C16_NoProcessingAfterAuthAbort ==
  [][(lastOp.op = "authRejected" /\ ~hasKey) =>
        lastOp'.op \notin {"processing", "submit"}]_vars

\* C17: removing an item leaves every invocation as it is (the request of an
\* in-flight item is not cancelled); when the request of an item that is no
\* longer in the queue completes with success or a non-fatal failure, the
\* queue is unchanged and the run stands before its next work-list item, or is
\* over.
C17_RemovedInFlightDiscarded ==
  [][/\ lastOp'.op = "remove" => runs' = runs
     /\ \A r \in RunIds :
          (InFlight(r) /\ runs'[r] # runs[r] /\ lastOp'.op \in {"success", "error"}
             /\ ~InQueue(queue, runs[r].pending[runs[r].idx])) =>
             /\ queue' = queue
             /\ runs[r].idx < Len(runs[r].pending) =>
                  runs'[r] = [runs[r] EXCEPT !.idx = @ + 1, !.pc = "check", !.text = NoText]
             /\ runs[r].idx = Len(runs[r].pending) => runs'[r] = FreeRun]_vars

\* the request of a removed item has completed, the item is not in the queue
\* and the run stands before its next item, which is in the queue
C17_Witness ==
  /\ lastOp.op \in {"success", "error"}
  /\ ~InQueue(queue, lastOp.id)
  /\ \E r \in RunIds :
       /\ runs[r].pc = "check"
       /\ runs[r].idx > 1
       /\ runs[r].pending[runs[r].idx - 1] = lastOp.id
       /\ InQueue(queue, runs[r].pending[runs[r].idx])

\* C14: the instruction text of a request is the run's global prompt, a
\* space, and the custom prompt that the queue holds for the item at the time
\* the request is sent ("" when it has none).
C14_AuthoritativeCustomInstruction ==
  [][\A r \in RunIds :
       (runs[r].pc = "decode" /\ runs'[r].pc = "api"
          /\ InQueue(queue, runs[r].pending[runs[r].idx])) =>
          LET c == ItemOf(queue, runs[r].pending[runs[r].idx]).customPrompt IN
          runs'[r].text = runs[r].globalPrompt \o " " \o (IF c = Undefined THEN "" ELSE c)]_vars

\* C15: for positive width and height the label chosen at img.onload is one
\* whose value is at minimal distance from width / height, and every label
\* declared before it is strictly farther; the four examples give 1:1, 16:9,
\* 9:16 and 4:3.
C15_ClosestAspectRatio ==
  (probe.result # "loading" /\ probe.w > 0 /\ probe.h > 0) =>
     /\ \E k \in 1..Len(Supported) :
          /\ Supported[k].id = probe.result
          /\ \A j \in 1..Len(Supported) :
               /\ Abs(Supported[j].val * probe.h - 10000 * probe.w)
                    >= Abs(Supported[k].val * probe.h - 10000 * probe.w)
               /\ j < k => Abs(Supported[j].val * probe.h - 10000 * probe.w)
                             > Abs(Supported[k].val * probe.h - 10000 * probe.w)
     /\ (probe.w = 1000 /\ probe.h = 1000) => probe.result = "1:1"
     /\ (probe.w = 1920 /\ probe.h = 1080) => probe.result = "16:9"
     /\ (probe.w = 1080 /\ probe.h = 1920) => probe.result = "9:16"
     /\ (probe.w = 800 /\ probe.h = 600) => probe.result = "4:3"

\* a 7 x 8 image, at the same distance from 1.0 and 0.75, got the label
\* declared first
C15_Witness == probe = [w |-> 7, h |-> 8, result |-> "1:1"]

\* C18: an invocation takes the global prompt of the moment it starts, keeps
\* it to its end whatever setGlobalPrompt does meanwhile, and each of its
\* requests is that text, a space and a custom text.
C18_GlobalPromptFixedPerRun ==
  [][\A r \in RunIds :
       /\ (runs[r].pc = "free" /\ runs'[r].pc # "free") =>
             runs'[r].globalPrompt = globalPrompt
       /\ (runs[r].pc # "free" /\ runs'[r].pc # "free") =>
             runs'[r].globalPrompt = runs[r].globalPrompt
       /\ (runs[r].pc = "decode" /\ runs'[r].pc = "api") =>
             \E c \in CustomTexts : runs'[r].text = runs[r].globalPrompt \o " " \o c]_vars

\* a request has just been sent with the global prompt of the start of its
\* run, after the global prompt was edited during the run
C18_Witness ==
  /\ lastOp.op = "submit"
  /\ \E r \in RunIds :
       /\ runs[r].pc = "api"
       /\ runs[r].pending[runs[r].idx] = lastOp.id
       /\ runs[r].globalPrompt # globalPrompt
       /\ runs[r].text = runs[r].globalPrompt \o " "

\* C19: if every awaited promise settles, every invocation of processQueue
\* that has started eventually ends, and the step that ends it clears
\* isProcessing.
C19_RunTerminates ==
  /\ \A r \in RunIds : (runs[r].pc # "free") ~> (runs[r].pc = "free")
  /\ [][\A r \in RunIds :
          (runs[r].pc # "free" /\ runs'[r].pc = "free") => isProcessing' = FALSE]_vars

\* a run over two items has ended after one was cancelled, one item was
\* removed and the other has its outcome
C19_Witness ==
  /\ ActiveRuns = {}
  /\ ~isProcessing
  /\ lastOp.op \in {"success", "error", "skip"}
  /\ nextId > 2
  /\ \E k \in 1..Len(queue) : queue[k].status \in {"success", "error"}

\* C20: for an image whose width or height is 0 the probe ends with the
\* signal InvalidImageDimensions and with no label.
C20_InvalidDimensionsSignalled ==
  (probe.result \notin {"loading", "none"} /\ (probe.w = 0 \/ probe.h = 0)) =>
     probe.result = "InvalidImageDimensions"

\* C21: if every awaited promise settles, an item that is processing
\* eventually has status success or error or is no longer in the queue, and
\* whenever no invocation of processQueue is in progress no item of the queue
\* has status processing.
C21_ProcessingEventuallyLeft ==
  /\ \A id \in 1..MaxItems :
       (InQueue(queue, id) /\ ItemOf(queue, id).status = "processing")
         ~> (~InQueue(queue, id) \/ ItemOf(queue, id).status \in {"success", "error"})
  /\ [](ActiveRuns = {} => ProcessingItems = {})

\* the message of the thrown value contains the signal
Carries(s) == probe.hasMessage /\ \E i \in 1..Len(probe.message) : probe.message[i] = s

\* C22: the outcome of a caught failure is fixed by its message with the
\* precedence AuthRejected, RateLimited, SafetyBlocked, Unknown: with the auth
\* signal the run is aborted and the credential flag cleared whatever else
\* the message carries; otherwise with "429" the item gets the rate-limit
\* label even if the safety signal is present; otherwise with the safety
\* signal the safety label; with no signal or no message the generic label;
\* and only the auth signal is fatal (every other failure leaves the
\* credential flag set and the item in error).
C22_ClassificationPrecedence ==
  [][\A r \in RunIds :
       (runs[r].pc = "api" /\ runs'[r].pc # "api") =>
          LET id == CurItem(r)
              label == ItemOf(queue', id).errorMsg
              fatal == lastOp'.op = "authRejected"
          IN /\ fatal <=> Carries(AuthSignal)
             /\ fatal => (~hasKey' /\ ~isProcessing' /\ runs'[r].pc = "free")
             /\ ~fatal =>
                  /\ hasKey' = hasKey
                  /\ ItemOf(queue', id).status = "error"
                  /\ Carries(RateSignal) => label = "TooFrequent"
                  /\ (~Carries(RateSignal) /\ Carries(SafetySignal)) => label = "SafetyLimit"
                  /\ (~Carries(RateSignal) /\ ~Carries(SafetySignal)) =>
                        label = "GenerationFailed"]_vars

\* a failure whose message carries the safety signal and then "429" was
\* caught and the item has the rate-limit label
C22_Witness ==
  /\ probe = [hasMessage |-> TRUE, message |-> <<SafetySignal, RateSignal>>]
  /\ lastOp = Op("error", 1)
  /\ queue[1].status = "error"
  /\ queue[1].errorMsg = "TooFrequent"
  /\ hasKey
====
